---- MODULE Spec2Model ----
(***************************************************************************)
(* A model of the smufl crate's metadata library: the generic GlyphData<T>  *)
(* map (try_get, get, unknown_glyphs), the decoding of a font metadata      *)
(* document (Metadata::from_reader, log_unknowns) and the default merge     *)
(* (Metadata::with_defaults); and of smufl-gen, which generates the Glyph   *)
(* enumeration from the glyph registry (variant_name, generate, the         *)
(* decoding of a Codepoint, main).                                          *)
(*                                                                          *)
(* Strings are sequences of byte values, so that the ordering String's Ord  *)
(* gives (byte-wise lexicographic) is computed and not assumed.             *)
(***************************************************************************)
EXTENDS Naturals, Sequences, FiniteSets, TLC

VARIABLES
    glyph_data,   \* GlyphData<T>.data of the map called on: HashMap<GlyphOrUnknown, T>
    gd_type,      \* std::any::type_name::<T>() of that map
    gd_ret,       \* the last call on glyph_data and what it gave
    self,         \* Metadata: the receiver of with_defaults
    defaults,     \* Metadata: the argument of with_defaults
    merged,       \* Metadata returned by with_defaults
    mpc,          \* "build" until with_defaults has been called, "merged" after
    doc,          \* the JSON document behind the reader given to from_reader
    pc,           \* position inside Metadata::from_reader
    metadata,     \* the local `metadata` of from_reader
    result,       \* what from_reader returned
    log,          \* the tracing events emitted so far, in order
    vn_name,      \* the registry name given to variant_name
    vn_parts,     \* the pieces vn_name was put together from
    vn_pascal,    \* variant_name: the name in Pascal case
    vn_fixed,     \* variant_name: the name after the ordinal correction
    vn_out,       \* what variant_name returned
    registry,     \* the glyph registry file given to smufl-gen
    gpc,          \* position inside main of smufl-gen
    main_glyphs,  \* the local `glyphs` of main
    stdout        \* what main printed

gdVars == <<glyph_data, gd_type, gd_ret>>
mergeVars == <<self, defaults, merged, mpc>>
readerVars == <<doc, pc, metadata, result, log>>
vnVars == <<vn_name, vn_parts, vn_pascal, vn_fixed, vn_out>>
genVars == <<registry, gpc, main_glyphs, stdout>>
vars == <<glyph_data, gd_type, gd_ret, self, defaults, merged, mpc,
          doc, pc, metadata, result, log,
          vn_name, vn_parts, vn_pascal, vn_fixed, vn_out,
          registry, gpc, main_glyphs, stdout>>

----------------------------------------------------------------------------
(* Bounds of the model.                                                     *)

\* entries the GlyphData map called on holds at most
MaxMapEntries == 3
\* entries `self` and `defaults` hold together (glyph entries and set fields)
MaxEntries == 3
\* members written into the document, beyond the fontName it starts with
MaxMembers == 3
\* pieces a name given to variant_name is put together from at most
MaxParts == 4
\* entries the glyph registry holds at most
MaxGlyphs == 2

----------------------------------------------------------------------------
(* Strings and Option.                                                      *)

None == <<>>
Some(v) == <<v>>

\* "noteheadBlack"
NoteheadBlack == <<110, 111, 116, 101, 104, 101, 97, 100, 66, 108, 97, 99, 107>>
\* "noteheadWhole"
NoteheadWhole == <<110, 111, 116, 101, 104, 101, 97, 100, 87, 104, 111, 108, 101>>
\* "Unknown"
UnknownName == <<85, 110, 107, 110, 111, 119, 110>>
\* "customGlyph"
CustomGlyph == <<99, 117, 115, 116, 111, 109, 71, 108, 121, 112, 104>>

\* The registry names of the generated enumeration Glyph (each variant carries
\* #[serde(rename = "<registry name>")]); a Glyph is identified by that name.
RegistryNames == {NoteheadBlack, NoteheadWhole}

\* Names no variant of Glyph carries.
UnregisteredNames == {UnknownName, CustomGlyph}

\* The data a map holds for a glyph (u64 in the tests of glyph_data.rs).
Values == {1, 2}

\* <String as Ord>::lt: byte-wise lexicographic, a proper prefix first.
RECURSIVE StrLess(_, _)
StrLess(a, b) ==
    IF b = <<>> THEN FALSE
    ELSE IF a = <<>> THEN TRUE
    ELSE IF a[1] # b[1] THEN a[1] < b[1]
    ELSE StrLess(Tail(a), Tail(b))

StrLessEq(a, b) == a = b \/ StrLess(a, b)

----------------------------------------------------------------------------
(* GlyphOrUnknown and GlyphData<T>.                                         *)

Glyph(name) == [tag |-> "Glyph", name |-> name]
Unknown(name) == [tag |-> "Unknown", name |-> name]

Glyphs == {Glyph(n) : n \in RegistryNames}

\* The keys a directly constructed map may hold: Unknown(String) takes any
\* string, the name of a registered glyph included.
DirectKeys == Glyphs \cup {Unknown(n) : n \in UnregisteredNames \cup {NoteheadBlack}}

\* HashMap::default()
GlyphData_default == << >>

\* HashMap::insert: the key's former value, if any, is replaced.
HashMap_insert(data, key, value) ==
    [k \in DOMAIN data \cup {key} |-> IF k = key THEN value ELSE data[k]]

\* HashMap::get(&key).copied()
HashMap_get(data, key) ==
    IF key \in DOMAIN data THEN Some(data[key]) ELSE None

\* A bug try_get could have: the glyph is found by its name, whatever the
\* branch of the key.
try_get_by_name(data, glyph) ==
    IF \E k \in DOMAIN data : k.name = glyph.name
    THEN Some(data[CHOOSE k \in DOMAIN data : k.name = glyph.name])
    ELSE None

\* GlyphData::try_get
try_get(data, glyph) == HashMap_get(data, Glyph(glyph.name))

Returned(v) == [panic |-> FALSE, value |-> Some(v), message |-> None]
Panicked(glyph, type_name) ==
    [panic |-> TRUE, value |-> None,
     message |-> Some([glyph |-> glyph, does_not_have |-> type_name])]

\* A bug get could have: the first value of the map stands in for a missing one.
get_or_any(data, type_name, glyph) ==
    IF try_get(data, glyph) # None THEN Returned(try_get(data, glyph)[1])
    ELSE IF DOMAIN data # {} THEN Returned(data[CHOOSE k \in DOMAIN data : TRUE])
    ELSE Panicked(glyph, type_name)

\* GlyphData::get: try_get(glyph).unwrap_or_else(|| panic!("{:?} does not have
\* {} defined", glyph, type_name::<T>()))
get(data, type_name, glyph) ==
    IF try_get(data, glyph) # None
    THEN Returned(try_get(data, glyph)[1])
    ELSE Panicked(glyph, type_name)

\* The orders in which HashMap::keys may yield the keys of `data`: each key
\* once, in an order the hasher decides.
KeyOrders(data) ==
    LET n == Cardinality(DOMAIN data)
    IN  {o \in [1..n -> DOMAIN data] : \A i, j \in 1..n : o[i] = o[j] => i = j}

IsUnknown(key) == key.tag = "Unknown"

RECURSIVE NamesOf(_)
NamesOf(keys) ==
    IF keys = <<>> THEN <<>> ELSE <<Head(keys).name>> \o NamesOf(Tail(keys))

\* A bug unknown_glyphs could have: no filter, every key's name is yielded.
unknown_glyphs_unfiltered(order) == NamesOf(order)

\* GlyphData::unknown_glyphs, on the keys as HashMap::keys yields them:
\* filter_map keeps the names of the Unknown keys, in that order.
unknown_glyphs(order) == NamesOf(SelectSeq(order, IsUnknown))

----------------------------------------------------------------------------
(* Calls on one GlyphData<T> map.                                           *)

TypeNames == {"u64", "smufl::staff_spaces::StaffSpaces"}

NoCall == [op |-> "none", glyph |-> None, out |-> None]

\* GlyphData { data: values.into_iter().collect() }, one pair at a time
GlyphDataInsert ==
    /\ Cardinality(DOMAIN glyph_data) < MaxMapEntries
    /\ \E key \in DirectKeys, value \in Values :
           glyph_data' = HashMap_insert(glyph_data, key, value)
    /\ gd_ret' = NoCall
    /\ UNCHANGED <<gd_type, mergeVars, readerVars, vnVars, genVars>>

CallTryGet ==
    /\ \E glyph \in Glyphs :
           gd_ret' = [op |-> "try_get", glyph |-> Some(glyph),
                      out |-> try_get(glyph_data, glyph)]
    /\ UNCHANGED <<glyph_data, gd_type, mergeVars, readerVars, vnVars, genVars>>

CallGet ==
    /\ \E glyph \in Glyphs :
           gd_ret' = [op |-> "get", glyph |-> Some(glyph),
                      out |-> get(glyph_data, gd_type, glyph)]
    /\ UNCHANGED <<glyph_data, gd_type, mergeVars, readerVars, vnVars, genVars>>

CallUnknownGlyphs ==
    /\ \E order \in KeyOrders(glyph_data) :
           gd_ret' = [op |-> "unknown_glyphs", glyph |-> None,
                      out |-> unknown_glyphs(order)]
    /\ UNCHANGED <<glyph_data, gd_type, mergeVars, readerVars, vnVars, genVars>>

----------------------------------------------------------------------------
(* EngravingDefaults.                                                       *)

\* The Option<StaffSpaces> fields of EngravingDefaults, each with the key
\* #[serde(rename_all = "camelCase")] gives it in the document.
OptionFieldTable ==
    {
        <<"staff_line_thickness", "staffLineThickness">>,
        <<"stem_thickness", "stemThickness">>,
        <<"beam_thickness", "beamThickness">>,
        <<"beam_spacing", "beamSpacing">>,
        <<"leger_line_thickness", "legerLineThickness">>,
        <<"leger_line_extension", "legerLineExtension">>,
        <<"slur_endpoint_thickness", "slurEndpointThickness">>,
        <<"slur_midpoint_thickness", "slurMidpointThickness">>,
        <<"tie_endpoint_thickness", "tieEndpointThickness">>,
        <<"tie_midpoint_thickness", "tieMidpointThickness">>,
        <<"thin_barline_thickness", "thinBarlineThickness">>,
        <<"thick_barline_thickness", "thickBarlineThickness">>,
        <<"dashed_barline_thickness", "dashedBarlineThickness">>,
        <<"dashed_barline_dash_length", "dashedBarlineDashLength">>,
        <<"dashed_barline_gap_length", "dashedBarlineGapLength">>,
        <<"barline_separation", "barlineSeparation">>,
        <<"repeat_barline_dot_separation", "repeatBarlineDotSeparation">>,
        <<"bracket_thickness", "bracketThickness">>,
        <<"sub_bracket_thickness", "subBracketThickness">>,
        <<"hairpin_thickness", "hairpinThickness">>,
        <<"octave_line_thickness", "octaveLineThickness">>,
        <<"pedal_line_thickness", "pedalLineThickness">>,
        <<"repeat_ending_line_thickness", "repeatEndingLineThickness">>,
        <<"arrow_shaft_thickness", "arrowShaftThickness">>,
        <<"lyric_line_thickness", "lyricLineThickness">>,
        <<"text_enclosure_thickness", "textEnclosureThickness">>,
        <<"tuplet_bracket_thickness", "tupletBracketThickness">>,
        <<"h_bar_thickness", "hBarThickness">>
    }

OptionFields == {row[1] : row \in OptionFieldTable}

JsonKeyOf(field) == (CHOOSE row \in OptionFieldTable : row[1] = field)[2]

\* "serif"
Serif == <<115, 101, 114, 105, 102>>

\* #[derive(Default)]: no font family, every measurement None.
EngravingDefaults_default ==
    [text_font_family |-> <<>>, opt |-> [f \in OptionFields |-> None]]

\* Option::or
Option_or(a, b) == IF a # None THEN a ELSE b

\* EngravingDefaults::with_defaults: every field from `this` if it is present
\* there, else from `other`.
EngravingDefaults_with_defaults(this, other) ==
    [text_font_family |->
         IF this.text_font_family # <<>> THEN this.text_font_family
         ELSE other.text_font_family,
     opt |-> [f \in OptionFields |-> Option_or(this.opt[f], other.opt[f])]]

\* GlyphData::with_defaults: the entries of `this`, and those entries of
\* `other` whose key `this` does not hold.
GlyphData_with_defaults(this, other) ==
    [k \in DOMAIN this \cup DOMAIN other |->
         IF k \in DOMAIN this THEN this[k] ELSE other[k]]

----------------------------------------------------------------------------
(* Metadata.                                                                *)

GlyphMaps == {"advance_widths", "anchors", "bounding_boxes"}

\* The fixture empty() of metadata.rs, under the given font name.
Metadata_empty(font_name) ==
    [font_name |-> font_name,
     engraving_defaults |-> EngravingDefaults_default,
     advance_widths |-> GlyphData_default,
     anchors |-> GlyphData_default,
     bounding_boxes |-> GlyphData_default]

\* Bugs Metadata::with_defaults could have.
\* The bounding boxes are merged the wrong way round.
with_defaults_swapped(this, other) ==
    [font_name |-> this.font_name,
     engraving_defaults |->
         EngravingDefaults_with_defaults(this.engraving_defaults, other.engraving_defaults),
     advance_widths |-> GlyphData_with_defaults(this.advance_widths, other.advance_widths),
     anchors |-> GlyphData_with_defaults(this.anchors, other.anchors),
     bounding_boxes |-> GlyphData_with_defaults(other.bounding_boxes, this.bounding_boxes)]

\* The engraving defaults are not merged.
with_defaults_without_engraving(this, other) ==
    [font_name |-> this.font_name,
     engraving_defaults |-> this.engraving_defaults,
     advance_widths |-> GlyphData_with_defaults(this.advance_widths, other.advance_widths),
     anchors |-> GlyphData_with_defaults(this.anchors, other.anchors),
     bounding_boxes |-> GlyphData_with_defaults(this.bounding_boxes, other.bounding_boxes)]

\* The anchors are filled from the advance widths of the defaults.
with_defaults_copy_paste(this, other) ==
    [font_name |-> this.font_name,
     engraving_defaults |->
         EngravingDefaults_with_defaults(this.engraving_defaults, other.engraving_defaults),
     advance_widths |-> GlyphData_with_defaults(this.advance_widths, other.advance_widths),
     anchors |-> GlyphData_with_defaults(this.anchors, other.advance_widths),
     bounding_boxes |-> GlyphData_with_defaults(this.bounding_boxes, other.bounding_boxes)]

\* The anchors are not merged.
with_defaults_without_anchors(this, other) ==
    [font_name |-> this.font_name,
     engraving_defaults |->
         EngravingDefaults_with_defaults(this.engraving_defaults, other.engraving_defaults),
     advance_widths |-> GlyphData_with_defaults(this.advance_widths, other.advance_widths),
     anchors |-> this.anchors,
     bounding_boxes |-> GlyphData_with_defaults(this.bounding_boxes, other.bounding_boxes)]

\* Metadata::with_defaults: font_name stays; engraving_defaults,
\* advance_widths, anchors and bounding_boxes are each replaced by their own
\* with_defaults against the same part of `other`.
Metadata_with_defaults(this, other) ==
    [font_name |-> this.font_name,
     engraving_defaults |->
         EngravingDefaults_with_defaults(this.engraving_defaults, other.engraving_defaults),
     advance_widths |-> GlyphData_with_defaults(this.advance_widths, other.advance_widths),
     anchors |-> GlyphData_with_defaults(this.anchors, other.anchors),
     bounding_boxes |-> GlyphData_with_defaults(this.bounding_boxes, other.bounding_boxes)]

\* "Original", "Defaults": the font names of the two values being merged
OriginalName == <<79, 114, 105, 103, 105, 110, 97, 108>>
DefaultsName == <<68, 101, 102, 97, 117, 108, 116, 115>>

\* The keys and fields the merged values are built from.
MergeKeys == Glyphs \cup {Unknown(n) : n \in UnregisteredNames}
ProbedFields == {"staff_line_thickness", "h_bar_thickness"}
StaffSpaceValues == {1, 2}

SomeFields(engraving) == {f \in OptionFields : engraving.opt[f] # None}

\* How much a Metadata holds: glyph entries, measurements, a font family.
EntryCount(m) ==
    Cardinality(DOMAIN m.advance_widths) + Cardinality(DOMAIN m.anchors)
    + Cardinality(DOMAIN m.bounding_boxes)
    + Cardinality(SomeFields(m.engraving_defaults))
    + (IF m.engraving_defaults.text_font_family # <<>> THEN 1 ELSE 0)

Room == mpc = "build" /\ EntryCount(self) + EntryCount(defaults) < MaxEntries

WithEntry(m, map, key, value) == [m EXCEPT ![map] = HashMap_insert(@, key, value)]
WithField(m, field, value) ==
    [m EXCEPT !.engraving_defaults.opt[field] = Some(value)]
WithFontFamily(m, family) ==
    [m EXCEPT !.engraving_defaults.text_font_family = family]

\* The fixtures non_empty() and defaults() of metadata.rs, one part at a time.
BuildSelf ==
    /\ Room
    /\ \/ \E map \in GlyphMaps, key \in MergeKeys, value \in Values :
              self' = WithEntry(self, map, key, value)
       \/ \E field \in ProbedFields, value \in StaffSpaceValues :
              self' = WithField(self, field, value)
       \/ self' = WithFontFamily(self, <<Serif>>)
    /\ UNCHANGED <<defaults, merged, mpc, gdVars, readerVars, vnVars, genVars>>

BuildDefaults ==
    /\ Room
    /\ \/ \E map \in GlyphMaps, key \in MergeKeys, value \in Values :
              defaults' = WithEntry(defaults, map, key, value)
       \/ \E field \in ProbedFields, value \in StaffSpaceValues :
              defaults' = WithField(defaults, field, value)
       \/ defaults' = WithFontFamily(defaults, <<Serif>>)
    /\ UNCHANGED <<self, merged, mpc, gdVars, readerVars, vnVars, genVars>>

\* self.clone().with_defaults(defaults.clone())
CallWithDefaults ==
    /\ mpc = "build"
    /\ merged' = Some(Metadata_with_defaults(self, defaults))
    /\ mpc' = "merged"
    /\ UNCHANGED <<self, defaults, gdVars, readerVars, vnVars, genVars>>

\* self.clone().with_defaults(self.clone())
CallWithSelfAsDefaults ==
    /\ mpc = "build"
    /\ defaults' = self
    /\ merged' = Some(Metadata_with_defaults(self, self))
    /\ mpc' = "merged"
    /\ UNCHANGED <<self, gdVars, readerVars, vnVars, genVars>>


----------------------------------------------------------------------------
(* The JSON document and its decoding (serde_json::from_reader).            *)

\* A JSON value, by what the Deserialize of the type expected at its place
\* makes of it: a value of the right shape decodes to v, null is accepted by
\* an Option alone, and any other value is a type mismatch.
Valid(v) == [shape |-> "valid", v |-> v]
JsonNull == [shape |-> "null", v |-> 0]
Mistyped == [shape |-> "mistyped", v |-> 0]

Ok(v) == [ok |-> TRUE, value |-> Some(v)]
Err == [ok |-> FALSE, value |-> None]

\* "Bravura"
Bravura == <<66, 114, 97, 118, 117, 114, 97>>

GlyphSections == {"glyphAdvanceWidths", "glyphsWithAnchors", "glyphBBoxes"}

\* The members a section of the document is written from: <<key, value>>.
GlyphMembers ==
    (RegistryNames \cup UnregisteredNames) \X {Valid(1), Valid(2), Mistyped}
EngravingMembers ==
    {<<"staffLineThickness", Valid(1)>>, <<"staffLineThickness", JsonNull>>,
     <<"staffLineThickness", Mistyped>>, <<"textFontFamily", Valid(<<Serif>>)>>,
     <<"designSize", Valid(20)>>}

\* {"fontName": "Bravura"}: the smallest document that decodes.
MinimalDocument ==
    [well_formed |-> TRUE,
     fontName |-> Some(Valid(Bravura)),
     engravingDefaults |-> None,
     glyphAdvanceWidths |-> None,
     glyphsWithAnchors |-> None,
     glyphBBoxes |-> None]

MembersOf(section) == IF section = None THEN <<>> ELSE section[1]

\* A bug the untagged enum could have: Unknown(String) declared first, so that
\* every key matches it.
GlyphOrUnknown_deserialize_unknown_first(name) == Unknown(name)

\* #[serde(untagged)] enum GlyphOrUnknown { Glyph(Glyph), Unknown(String) }:
\* the variants are tried in the order declared; Glyph accepts exactly the
\* registry names, Unknown accepts every string.
GlyphOrUnknown_deserialize(name) ==
    IF name \in RegistryNames THEN Glyph(name) ELSE Unknown(name)

\* #[serde(transparent)] GlyphData<T>: the members are visited in document
\* order and inserted into the HashMap; the first value T rejects fails the
\* decode.
RECURSIVE GlyphData_collect(_, _)
GlyphData_collect(members, data) ==
    IF members = <<>> THEN Ok(data)
    ELSE IF Head(members)[2].shape # "valid" THEN Err
    ELSE GlyphData_collect(
             Tail(members),
             HashMap_insert(data, GlyphOrUnknown_deserialize(Head(members)[1]),
                            Head(members)[2].v))

\* #[serde(default)] on the field: an absent section is GlyphData::default().
GlyphData_deserialize(section) == GlyphData_collect(MembersOf(section), GlyphData_default)

JsonKeys == {row[2] : row \in OptionFieldTable}
FieldOf(key) == (CHOOSE row \in OptionFieldTable : row[2] = key)[1]

\* #[derive(Deserialize)] for EngravingDefaults: a key of no field is skipped,
\* a key met twice is an error (duplicate field), an Option field takes null
\* or a number, textFontFamily takes an array of strings.
RECURSIVE EngravingDefaults_visit(_, _, _)
EngravingDefaults_visit(members, seen, acc) ==
    IF members = <<>> THEN Ok(acc)
    ELSE LET key == Head(members)[1]
             json == Head(members)[2]
         IN  IF key = "textFontFamily"
             THEN IF key \in seen \/ json.shape # "valid" THEN Err
                  ELSE EngravingDefaults_visit(Tail(members), seen \cup {key},
                           [acc EXCEPT !.text_font_family = json.v])
             ELSE IF key \in JsonKeys
             THEN IF key \in seen \/ json.shape = "mistyped" THEN Err
                  ELSE EngravingDefaults_visit(Tail(members), seen \cup {key},
                           [acc EXCEPT !.opt[FieldOf(key)] =
                                IF json.shape = "null" THEN None ELSE Some(json.v)])
             ELSE EngravingDefaults_visit(Tail(members), seen, acc)

EngravingDefaults_deserialize(section) ==
    EngravingDefaults_visit(MembersOf(section), {}, EngravingDefaults_default)

\* A bug the decoding of Metadata could have: font_name under #[serde(default)]
\* as well, so that a document without a usable fontName decodes to an empty
\* name.
Metadata_deserialize_default_name(d) ==
    LET engraving == EngravingDefaults_deserialize(d.engravingDefaults)
        widths == GlyphData_deserialize(d.glyphAdvanceWidths)
        anchors == GlyphData_deserialize(d.glyphsWithAnchors)
        boxes == GlyphData_deserialize(d.glyphBBoxes)
    IN  IF /\ d.well_formed
           /\ engraving.ok /\ widths.ok /\ anchors.ok /\ boxes.ok
        THEN Ok([font_name |-> IF d.fontName # None /\ d.fontName[1].shape = "valid"
                               THEN d.fontName[1].v ELSE <<>>,
                 engraving_defaults |-> engraving.value[1],
                 advance_widths |-> widths.value[1],
                 anchors |-> anchors.value[1],
                 bounding_boxes |-> boxes.value[1]])
        ELSE Err

\* #[derive(Deserialize)] for Metadata over serde_json: the text must be JSON,
\* fontName must be there and be a string, and every part that is there must
\* decode; the parts that are not there take their Default.
Metadata_deserialize(d) ==
    LET engraving == EngravingDefaults_deserialize(d.engravingDefaults)
        widths == GlyphData_deserialize(d.glyphAdvanceWidths)
        anchors == GlyphData_deserialize(d.glyphsWithAnchors)
        boxes == GlyphData_deserialize(d.glyphBBoxes)
    IN  IF /\ d.well_formed
           /\ d.fontName # None
           /\ d.fontName[1].shape = "valid"
           /\ engraving.ok /\ widths.ok /\ anchors.ok /\ boxes.ok
        THEN Ok([font_name |-> d.fontName[1].v,
                 engraving_defaults |-> engraving.value[1],
                 advance_widths |-> widths.value[1],
                 anchors |-> anchors.value[1],
                 bounding_boxes |-> boxes.value[1]])
        ELSE Err

----------------------------------------------------------------------------
(* Metadata::log_unknowns.                                                  *)

\* Itertools::unique: the first occurrence of each item, in order.
RECURSIVE unique_from(_, _)
unique_from(items, seen) ==
    IF items = <<>> THEN <<>>
    ELSE IF Head(items) \in seen THEN unique_from(Tail(items), seen)
    ELSE <<Head(items)>> \o unique_from(Tail(items), seen \cup {Head(items)})

unique(items) == unique_from(items, {})

\* Itertools::sorted on &String: ascending by Ord, by insertion.
RECURSIVE insert_sorted(_, _)
insert_sorted(item, items) ==
    IF items = <<>> THEN <<item>>
    ELSE IF StrLess(item, Head(items)) THEN <<item>> \o items
    ELSE <<Head(items)>> \o insert_sorted(item, Tail(items))

RECURSIVE sorted(_)
sorted(items) ==
    IF items = <<>> THEN <<>>
    ELSE insert_sorted(items[Len(items)], sorted(SubSeq(items, 1, Len(items) - 1)))

Event(level, message, unknowns) ==
    [level |-> level, message |-> message, unknowns |-> unknowns]

\* Bugs log_unknowns could have.
\* The bounding boxes are not chained in.
collect_unknowns_without_boxes(widths, anchors, boxes) ==
    sorted(unique(unknown_glyphs(widths) \o unknown_glyphs(anchors)))

\* The names are reported as the maps yield them, not sorted.
collect_unknowns_unsorted(widths, anchors, boxes) ==
    unique(unknown_glyphs(widths) \o unknown_glyphs(anchors) \o unknown_glyphs(boxes))

\* The `unknowns` of log_unknowns, from the keys of the three maps as their
\* HashMaps yield them: chain, unique, sorted, collect.
collect_unknowns(widths, anchors, boxes) ==
    sorted(unique(unknown_glyphs(widths) \o unknown_glyphs(anchors) \o unknown_glyphs(boxes)))

\* A bug log_unknowns could have: the warning is emitted whatever the list holds.
log_unknowns_always_warns(unknowns) ==
    Event("WARN", "Unknown glyphs found", Some(unknowns))

\* The event log_unknowns emits: a debug! when the list is empty, else a warn!
\* carrying the list.
log_unknowns(unknowns) ==
    IF unknowns = <<>>
    THEN Event("DEBUG", "No unknowns glyphs found", None)
    ELSE Event("WARN", "Unknown glyphs found", Some(unknowns))

----------------------------------------------------------------------------
(* Metadata::from_reader, step by step.                                     *)

FontNameIntact(d) == d.fontName # None /\ d.fontName[1].shape = "valid"

Edits(d) ==
    Len(MembersOf(d.engravingDefaults)) + Len(MembersOf(d.glyphAdvanceWidths))
    + Len(MembersOf(d.glyphsWithAnchors)) + Len(MembersOf(d.glyphBBoxes))
    + (IF FontNameIntact(d) THEN 0 ELSE 1)
    + (IF d.well_formed THEN 0 ELSE 1)

Writable == pc = "input" /\ Edits(doc) < MaxMembers

WithMember(d, section, member) ==
    [d EXCEPT ![section] = Some(Append(MembersOf(@), member))]

\* The author of the document adds one member to one of its objects.
WriteMember ==
    /\ Writable
    /\ \/ \E section \in GlyphSections, member \in GlyphMembers :
              doc' = WithMember(doc, section, member)
       \/ \E member \in EngravingMembers :
              doc' = WithMember(doc, "engravingDefaults", member)
    /\ UNCHANGED <<pc, metadata, result, log, gdVars, mergeVars, vnVars, genVars>>

\* The document is damaged: fontName left out or given as a number, or the
\* text cut short so that it is no JSON.
DamageDocument ==
    /\ Writable
    /\ doc.well_formed /\ FontNameIntact(doc)
    /\ \/ doc' = [doc EXCEPT !.fontName = None]
       \/ doc' = [doc EXCEPT !.fontName = Some(Mistyped)]
       \/ doc' = [doc EXCEPT !.well_formed = FALSE]
    /\ UNCHANGED <<pc, metadata, result, log, gdVars, mergeVars, vnVars, genVars>>

\* let metadata: Self = serde_json::from_reader(reader)?;  (decoded)
Decode ==
    /\ pc = "input"
    /\ Metadata_deserialize(doc).ok
    /\ metadata' = Metadata_deserialize(doc).value
    /\ pc' = "decoded"
    /\ UNCHANGED <<doc, result, log, gdVars, mergeVars, vnVars, genVars>>

\* let metadata: Self = serde_json::from_reader(reader)?;  (the ? returns the
\* error, which #[instrument(err(Debug))] reports as an ERROR event)
DecodeFails ==
    /\ pc = "input"
    /\ ~Metadata_deserialize(doc).ok
    /\ result' = Some(Err)
    /\ log' = Append(log, Event("ERROR", "from_reader", None))
    /\ pc' = "returned"
    /\ UNCHANGED <<doc, metadata, gdVars, mergeVars, vnVars, genVars>>

\* metadata.log_unknowns();
LogUnknowns ==
    /\ pc = "decoded"
    /\ \E widths \in KeyOrders(metadata[1].advance_widths),
          anchors \in KeyOrders(metadata[1].anchors),
          boxes \in KeyOrders(metadata[1].bounding_boxes) :
           log' = Append(log, log_unknowns(collect_unknowns(widths, anchors, boxes)))
    /\ pc' = "logged"
    /\ UNCHANGED <<doc, metadata, result, gdVars, mergeVars, vnVars, genVars>>

\* Ok(metadata)
ReturnOk ==
    /\ pc = "logged"
    /\ result' = Some(Ok(metadata[1]))
    /\ pc' = "returned"
    /\ UNCHANGED <<doc, metadata, log, gdVars, mergeVars, vnVars, genVars>>

----------------------------------------------------------------------------
(* smufl-gen: variant_name, the identifier of a glyph's variant.            *)

is_ascii_digit(c) == c >= 48 /\ c <= 57
is_uppercase(c) == c >= 65 /\ c <= 90
is_lowercase(c) == c >= 97 /\ c <= 122
\* char::is_alphabetic, on the ASCII the registry names are written in
is_alphabetic(c) == is_uppercase(c) \/ is_lowercase(c)
to_uppercase(c) == IF is_lowercase(c) THEN c - 32 ELSE c
to_lowercase(c) == IF is_uppercase(c) THEN c + 32 ELSE c

\* The boundaries to_case splits a name at. A delimiter ('_', '-', ' ') ends a
\* word and is dropped.
is_delimiter(c) == c \in {95, 45, 32}

\* A word ends after s[i], which it keeps: lower|Upper, lower|digit,
\* Upper|digit, digit|lower, digit|Upper, or the acronym rule Upper|Upper lower.
boundary_after(s, i) ==
    /\ i < Len(s)
    /\ LET c == s[i]
           d == s[i + 1]
       IN  \/ is_lowercase(c) /\ is_uppercase(d)
           \/ is_lowercase(c) /\ is_ascii_digit(d)
           \/ is_uppercase(c) /\ is_ascii_digit(d)
           \/ is_ascii_digit(c) /\ is_lowercase(d)
           \/ is_ascii_digit(c) /\ is_uppercase(d)
           \/ /\ i + 2 <= Len(s)
              /\ is_uppercase(c) /\ is_uppercase(d) /\ is_lowercase(s[i + 2])

RECURSIVE split_from(_, _, _)
split_from(s, i, word) ==
    IF i > Len(s) THEN <<word>>
    ELSE IF is_delimiter(s[i]) THEN <<word>> \o split_from(s, i + 1, <<>>)
    ELSE IF boundary_after(s, i)
         THEN <<Append(word, s[i])>> \o split_from(s, i + 1, <<>>)
    ELSE split_from(s, i + 1, Append(word, s[i]))

\* The words of a name; empty words are dropped.
split(s) == SelectSeq(split_from(s, 1, <<>>), LAMBDA w : w # <<>>)

\* The word pattern of Case::Pascal: first letter upper case, the rest lower.
capital(word) ==
    [i \in 1..Len(word) |->
        IF i = 1 THEN to_uppercase(word[i]) ELSE to_lowercase(word[i])]

RECURSIVE join(_)
join(words) ==
    IF words = <<>> THEN <<>> ELSE capital(Head(words)) \o join(Tail(words))

\* name.to_case(Case::Pascal)
to_case_Pascal(name) == join(split(name))

\* The members of the character class [Th|Nd] of REGEX: 'T', 'h', '|', 'N', 'd'.
RegexClass == {84, 104, 124, 78, 100}

\* The matches of (\d+)([Th|Nd]) in s, as <<first digit, class character>>
\* positions: digits from i up to j - 1, a member of the class at j.
regex_matches(s) ==
    {m \in (1..Len(s)) \X (1..Len(s)) :
        /\ m[1] < m[2]
        /\ \A k \in m[1]..(m[2] - 1) : is_ascii_digit(s[k])
        /\ s[m[2]] \in RegexClass}

\* The leftmost match, if any: Regex::replace rewrites that one alone.
regex_find(s) ==
    IF regex_matches(s) = {} THEN None
    ELSE Some(CHOOSE m \in regex_matches(s) :
                  \A other \in regex_matches(s) : m[1] <= other[1])

\* REGEX.replace(&name, |captures| captures[1] + captures[2].to_lowercase())
regex_replace(s) ==
    IF regex_find(s) = None THEN s
    ELSE LET m == regex_find(s)[1]
         IN  SubSeq(s, 1, m[2] - 1) \o <<to_lowercase(s[m[2]])>>
                 \o SubSeq(s, m[2] + 1, Len(s))

\* A bug variant_name could have: the underscore for a first character that is
\* neither a letter nor a digit only.
needs_underscore_alphanumeric(name) ==
    name # <<>> /\ ~(is_alphabetic(name[1]) \/ is_ascii_digit(name[1]))

\* name.chars().next().map_or(false, |c| !c.is_alphabetic())
needs_underscore(name) == name # <<>> /\ ~is_alphabetic(name[1])

variant_name(name) ==
    LET pascal == to_case_Pascal(name)
        fixed == regex_replace(pascal)
    IN  IF needs_underscore(fixed) THEN <<95>> \o fixed ELSE fixed

\* The registry names of the tests of variant_name.
\* "flag8thDown"
Flag8thDown_name == <<102, 108, 97, 103, 56, 116, 104, 68, 111, 119, 110>>
\* "flag16thDown"
Flag16thDown_name == <<102, 108, 97, 103, 49, 54, 116, 104, 68, 111, 119, 110>>
\* "flag32ndDown"
Flag32ndDown_name == <<102, 108, 97, 103, 51, 50, 110, 100, 68, 111, 119, 110>>
\* "flag64thDown"
Flag64thDown_name == <<102, 108, 97, 103, 54, 52, 116, 104, 68, 111, 119, 110>>
\* "flag128thDown"
Flag128thDown_name == <<102, 108, 97, 103, 49, 50, 56, 116, 104, 68, 111, 119, 110>>
\* "flag256thDown"
Flag256thDown_name == <<102, 108, 97, 103, 50, 53, 54, 116, 104, 68, 111, 119, 110>>
\* "flag512thDown"
Flag512thDown_name == <<102, 108, 97, 103, 53, 49, 50, 116, 104, 68, 111, 119, 110>>
\* "4stringTabClef"
FourStringTabClef_name == <<52, 115, 116, 114, 105, 110, 103, 84, 97, 98, 67, 108, 101, 102>>
\* "6stringTabClef"
SixStringTabClef_name == <<54, 115, 116, 114, 105, 110, 103, 84, 97, 98, 67, 108, 101, 102>>
TestNames ==
    {Flag8thDown_name,
     Flag16thDown_name,
     Flag32ndDown_name,
     Flag64thDown_name,
     Flag128thDown_name,
     Flag256thDown_name,
     Flag512thDown_name,
     FourStringTabClef_name,
     SixStringTabClef_name}

\* The pieces other names are put together from:
\* "flag", "8", "32", "th", "nd", "Tab", "tab", "Down"
Fragments ==
    {<<102, 108, 97, 103>>,
     <<56>>,
     <<51, 50>>,
     <<116, 104>>,
     <<110, 100>>,
     <<84, 97, 98>>,
     <<116, 97, 98>>,
     <<68, 111, 119, 110>>}

\* One call of variant_name on a name.
ExtendName ==
    /\ vn_out = None
    /\ vn_parts < MaxParts
    /\ \E fragment \in Fragments : vn_name' = vn_name \o fragment
    /\ vn_parts' = vn_parts + 1
    /\ UNCHANGED <<vn_pascal, vn_fixed, vn_out>>
    /\ UNCHANGED <<gdVars, mergeVars, readerVars, genVars>>

CallVariantName ==
    /\ vn_out = None
    /\ vn_pascal' = to_case_Pascal(vn_name)
    /\ vn_fixed' = regex_replace(vn_pascal')
    /\ vn_out' = Some(variant_name(vn_name))
    /\ UNCHANGED <<vn_name, vn_parts>>
    /\ UNCHANGED <<gdVars, mergeVars, readerVars, genVars>>

----------------------------------------------------------------------------
(* smufl-gen: the registry, Codepoint, generate and main.                   *)

\* char::to_digit(16)
to_digit(c) ==
    IF is_ascii_digit(c) THEN Some(c - 48)
    ELSE IF c >= 65 /\ c <= 70 THEN Some(c - 55)
    ELSE IF c >= 97 /\ c <= 102 THEN Some(c - 87)
    ELSE None

RECURSIVE trim_zeros(_)
trim_zeros(digits) ==
    IF digits # <<>> /\ digits[1] = 48 THEN trim_zeros(Tail(digits)) ELSE digits

\* The value of a run of hexadecimal digits. Above char::MAX it is kept at
\* 0x110000: char::from_u32 refuses every such value alike.
RECURSIVE hex_value(_, _)
hex_value(digits, acc) ==
    IF digits = <<>> THEN acc
    ELSE LET next == acc * 16 + to_digit(Head(digits))[1]
         IN  hex_value(Tail(digits), IF next > 1114111 THEN 1114112 ELSE next)

\* u32::from_str_radix(src, 16): one leading '+' is allowed, then one digit at
\* least; a value that does not fit 32 bits (more than 8 digits after the
\* zeros) is an error.
from_str_radix(src) ==
    LET digits == IF src # <<>> /\ src[1] = 43 THEN Tail(src) ELSE src
    IN  IF digits = <<>> THEN Err
        ELSE IF \E i \in DOMAIN digits : to_digit(digits[i]) = None THEN Err
        ELSE IF Len(trim_zeros(digits)) > 8 THEN Err
        ELSE Ok(hex_value(digits, 0))

\* char::from_u32: no surrogate, nothing above 0x10FFFF.
char_from_u32(value) ==
    IF value > 1114111 \/ (value >= 55296 /\ value <= 57343) THEN None
    ELSE Some(value)

Codepoint_panic == [panic |-> TRUE, value |-> None]
Codepoint_ok(char) == [panic |-> FALSE, value |-> Some(char)]

\* <Codepoint as Deserialize>::deserialize on a JSON string: the first two
\* bytes are cut off, whatever they are, and each unwrap panics on failure.
Codepoint_deserialize(string) ==
    IF Len(string) < 2 THEN Codepoint_panic
    ELSE LET hex == SubSeq(string, 3, Len(string))
             value == from_str_radix(hex)
         IN  IF ~value.ok THEN Codepoint_panic
             ELSE IF char_from_u32(value.value[1]) = None THEN Codepoint_panic
             ELSE Codepoint_ok(char_from_u32(value.value[1])[1])

\* Option<Codepoint>: an absent alternateCodepoint is None.
Option_Codepoint_deserialize(json) ==
    IF json = None THEN Codepoint_ok(None)
    ELSE LET codepoint == Codepoint_deserialize(json[1])
         IN  IF codepoint.panic THEN Codepoint_panic
             ELSE Codepoint_ok(Some(codepoint.value[1]))

\* Glyph::from_reader: every entry of the registry is decoded, and the first
\* panic ends the process.
Glyph_from_reader(json) ==
    IF \E name \in DOMAIN json :
           \/ Codepoint_deserialize(json[name].codepoint).panic
           \/ Option_Codepoint_deserialize(json[name].alternateCodepoint).panic
    THEN Codepoint_panic
    ELSE Codepoint_ok(
             [name \in DOMAIN json |->
                 [codepoint |-> Codepoint_deserialize(json[name].codepoint).value[1],
                  alternate_codepoint |->
                      Option_Codepoint_deserialize(json[name].alternateCodepoint).value[1],
                  description |-> json[name].description]])

\* <Codepoint as Display>::fmt: the char's Debug form, a char literal.
Codepoint_fmt(codepoint) == [char_literal |-> codepoint]

\* description.replace('[', "\\[").replace(']', "\\]")
RECURSIVE escape_brackets(_)
escape_brackets(s) ==
    IF s = <<>> THEN <<>>
    ELSE IF Head(s) \in {91, 93} THEN <<92, Head(s)>> \o escape_brackets(Tail(s))
    ELSE <<Head(s)>> \o escape_brackets(Tail(s))

\* Vec::sort_by_key on the identifier: by insertion, stable.
RECURSIVE insert_by_key(_, _)
insert_by_key(item, items) ==
    IF items = <<>> THEN <<item>>
    ELSE IF StrLess(item[1], Head(items)[1]) THEN <<item>> \o items
    ELSE <<Head(items)>> \o insert_by_key(item, Tail(items))

RECURSIVE sort_by_key(_)
sort_by_key(items) ==
    IF items = <<>> THEN <<>>
    ELSE insert_by_key(items[Len(items)],
                       sort_by_key(SubSeq(items, 1, Len(items) - 1)))

\* One variant per entry: its doc comment and its serde rename.
add_glyph_enum(glyphs) ==
    [i \in 1..Len(glyphs) |->
        [variant |-> glyphs[i][1],
         doc |-> escape_brackets(glyphs[i][3].description),
         rename |-> glyphs[i][2]]]

\* One arm per entry: Self::<name> => <codepoint>,
add_codepoint_fn(glyphs) ==
    [i \in 1..Len(glyphs) |->
        [variant |-> glyphs[i][1],
         value |-> Codepoint_fmt(glyphs[i][3].codepoint)]]

\* A bug add_alternate_codepoint_fn could have: the arm is built from the
\* primary code point.
add_alternate_codepoint_fn_primary(glyphs) ==
    [i \in 1..Len(glyphs) |->
        [variant |-> glyphs[i][1],
         value |-> Some(Codepoint_fmt(glyphs[i][3].codepoint))]]

\* One arm per entry: Self::<name> => Some(<alternate>), or => None,
add_alternate_codepoint_fn(glyphs) ==
    [i \in 1..Len(glyphs) |->
        [variant |-> glyphs[i][1],
         value |-> IF glyphs[i][3].alternate_codepoint # None
                   THEN Some(Codepoint_fmt(glyphs[i][3].alternate_codepoint[1]))
                   ELSE None]]

\* generate(glyphs), the map iterated in `order`: the text of the scope, as the
\* variants of Glyph and the arms of the two functions.
generate(glyphs, order) ==
    LET named == [i \in 1..Len(order) |->
                     <<variant_name(order[i]), order[i], glyphs[order[i]]>>]
        sorted_glyphs == sort_by_key(named)
    IN  [glyph_enum |-> add_glyph_enum(sorted_glyphs),
         codepoint_fn |-> add_codepoint_fn(sorted_glyphs),
         alternate_codepoint_fn |-> add_alternate_codepoint_fn(sorted_glyphs)]

\* "flag8ThDown"
Flag8ThDown_name == <<102, 108, 97, 103, 56, 84, 104, 68, 111, 119, 110>>

\* The names the entries of the registry are taken from.
GlyphNames == {Flag8thDown_name, Flag8ThDown_name, FourStringTabClef_name, NoteheadBlack}

\* The codepoint strings of the entries:
\*   "U+E0A4": the form of the registry
\*   "0xE0A4": another prefix
\*   "E0A4": no prefix
\*   "U+": no digits
\*   "U+E0G4": no hexadecimal number
\*   "U+D800": a surrogate
\*   "U+110000": above char::MAX
CodepointStrings ==
    {<<85, 43, 69, 48, 65, 52>>,
     <<48, 120, 69, 48, 65, 52>>,
     <<69, 48, 65, 52>>,
     <<85, 43>>,
     <<85, 43, 69, 48, 71, 52>>,
     <<85, 43, 68, 56, 48, 48>>,
     <<85, 43, 49, 49, 48, 48, 48, 48>>}

\* The alternateCodepoint strings: "U+1D158", "U+DFFF"; or none.
AlternateStrings ==
    {None, Some(<<85, 43, 49, 68, 49, 53, 56>>), Some(<<85, 43, 68, 70, 70, 70>>)}

\* "Figured bass ["
FiguredBass == <<70, 105, 103, 117, 114, 101, 100, 32, 98, 97, 115, 115, 32, 91>>

Descriptions == {FiguredBass}

\* The registry file gains an entry.
AddEntry ==
    /\ gpc = "input"
    /\ Cardinality(DOMAIN registry) < MaxGlyphs
    /\ \E name \in GlyphNames \ DOMAIN registry, codepoint \in CodepointStrings,
          alternate \in AlternateStrings, description \in Descriptions :
           registry' = HashMap_insert(registry, name,
                           [codepoint |-> codepoint,
                            alternateCodepoint |-> alternate,
                            description |-> description])
    /\ UNCHANGED <<gpc, main_glyphs, stdout>>
    /\ UNCHANGED <<gdVars, mergeVars, readerVars, vnVars>>

\* main: Glyph::from_reader(reader)? gives the glyphs.
MainFromReader ==
    /\ gpc = "input"
    /\ ~Glyph_from_reader(registry).panic
    /\ main_glyphs' = Some(Glyph_from_reader(registry).value[1])
    /\ gpc' = "decoded"
    /\ UNCHANGED <<registry, stdout>>
    /\ UNCHANGED <<gdVars, mergeVars, readerVars, vnVars>>

\* main: an unwrap of Codepoint::deserialize panics, the process ends.
MainPanics ==
    /\ gpc = "input"
    /\ Glyph_from_reader(registry).panic
    /\ gpc' = "panicked"
    /\ UNCHANGED <<registry, main_glyphs, stdout>>
    /\ UNCHANGED <<gdVars, mergeVars, readerVars, vnVars>>

\* main: let code = generate(glyphs); println!("{code}"). The HashMap is
\* iterated in an order of its own.
MainGenerate ==
    /\ gpc = "decoded"
    /\ \E order \in KeyOrders(main_glyphs[1]) :
           stdout' = Some(generate(main_glyphs[1], order))
    /\ gpc' = "printed"
    /\ UNCHANGED <<registry, main_glyphs>>
    /\ UNCHANGED <<gdVars, mergeVars, readerVars, vnVars>>

----------------------------------------------------------------------------
(* Specifications.                                                          *)

GlyphDataIdle ==
    /\ glyph_data = GlyphData_default
    /\ gd_type = "u64"
    /\ gd_ret = NoCall

MergeIdle ==
    /\ self = Metadata_empty(OriginalName)
    /\ defaults = Metadata_empty(DefaultsName)
    /\ merged = None
    /\ mpc = "build"

ReaderIdle ==
    /\ doc = MinimalDocument
    /\ pc = "input"
    /\ metadata = None
    /\ result = None
    /\ log = <<>>

VariantNameIdle ==
    /\ vn_name = <<>>
    /\ vn_parts = 0
    /\ vn_pascal = <<>>
    /\ vn_fixed = <<>>
    /\ vn_out = None

GeneratorIdle ==
    /\ registry = <<>>
    /\ gpc = "input"
    /\ main_glyphs = None
    /\ stdout = None

\* Metadata::from_reader on a document.
Init == GlyphDataIdle /\ MergeIdle /\ ReaderIdle /\ VariantNameIdle /\ GeneratorIdle

Next ==
    \/ WriteMember
    \/ DamageDocument
    \/ Decode
    \/ DecodeFails
    \/ LogUnknowns
    \/ ReturnOk

Spec == Init /\ [][Next]_vars

\* The calls on one GlyphData<T> map.
InitGlyphData ==
    /\ glyph_data = GlyphData_default
    /\ gd_type \in TypeNames
    /\ gd_ret = NoCall
    /\ MergeIdle /\ ReaderIdle /\ VariantNameIdle /\ GeneratorIdle

NextGlyphData ==
    \/ GlyphDataInsert
    \/ CallTryGet
    \/ CallGet
    \/ CallUnknownGlyphs

SpecGlyphData == InitGlyphData /\ [][NextGlyphData]_vars

\* Metadata::with_defaults on two Metadata values.
InitMerge == GlyphDataIdle /\ MergeIdle /\ ReaderIdle /\ VariantNameIdle /\ GeneratorIdle

NextMerge ==
    \/ BuildSelf
    \/ BuildDefaults
    \/ CallWithDefaults
    \/ CallWithSelfAsDefaults

SpecMerge == InitMerge /\ [][NextMerge]_vars

\* variant_name on the names of its tests and on names put together from
\* pieces.
InitVariantName ==
    /\ vn_name \in {<<>>} \cup TestNames
    /\ vn_parts = (IF vn_name = <<>> THEN 0 ELSE MaxParts)
    /\ vn_pascal = <<>>
    /\ vn_fixed = <<>>
    /\ vn_out = None
    /\ GlyphDataIdle /\ MergeIdle /\ ReaderIdle /\ GeneratorIdle

NextVariantName ==
    \/ ExtendName
    \/ CallVariantName

SpecVariantName == InitVariantName /\ [][NextVariantName]_vars

\* main of smufl-gen on a registry file.
InitGenerator ==
    GlyphDataIdle /\ MergeIdle /\ ReaderIdle /\ VariantNameIdle /\ GeneratorIdle

NextGenerator ==
    \/ AddEntry
    \/ MainFromReader
    \/ MainPanics
    \/ MainGenerate

SpecGenerator == InitGenerator /\ [][NextGenerator]_vars


----------------------------------------------------------------------------
(* Properties of Metadata::with_defaults (of SpecMerge).                    *)

Range(s) == {s[i] : i \in DOMAIN s}

\* The names of the Unknown keys of a map.
UnknownNamesIn(data) == {k.name : k \in {x \in DOMAIN data : x.tag = "Unknown"}}

Merged == mpc = "merged"

\* C1: in each of the three glyph maps, and for every glyph, the lookup in the
\* merged map gives the value of `self` when `self` has one (whatever
\* `defaults` holds), the value of `defaults` when only `defaults` has one,
\* and nothing when neither has one.
C1_MergePrecedence ==
    Merged =>
        \A map \in GlyphMaps, g \in Glyphs :
            LET p == try_get(self[map], g)
                f == try_get(defaults[map], g)
                m == try_get(merged[1][map], g)
            IN  /\ g \in DOMAIN self[map] => m = Some(self[map][g])
                /\ (p = None /\ g \in DOMAIN defaults[map]) => m = Some(defaults[map][g])
                /\ (p = None /\ f = None) => m = None

\* A merge in which one glyph has differing values in `self` and `defaults`
\* and another glyph has a value in `defaults` only.
C1_Witness ==
    /\ Merged
    /\ \E map \in GlyphMaps, g \in Glyphs :
           /\ g \in DOMAIN self[map] /\ g \in DOMAIN defaults[map]
           /\ self[map][g] # defaults[map][g]
           /\ try_get(merged[1][map], g) = Some(self[map][g])
    /\ \E map \in GlyphMaps, g \in Glyphs :
           /\ g \notin DOMAIN self[map] /\ g \in DOMAIN defaults[map]
           /\ try_get(merged[1][map], g) = Some(defaults[map][g])

\* C2: every Option<StaffSpaces> field of the merged EngravingDefaults is the
\* field of `self` when that is Some, and otherwise the field of `defaults`
\* (None only when both are None).
C2_EngravingFieldsResolved ==
    Merged =>
        \A f \in OptionFields :
            LET p == self.engraving_defaults.opt[f]
                d == defaults.engraving_defaults.opt[f]
                m == merged[1].engraving_defaults.opt[f]
            IN  /\ p # None => m = p
                /\ p = None => m = d
                /\ m = None <=> (p = None /\ d = None)

\* A merge in which one field is set differently in both and another is set
\* in `defaults` only.
C2_Witness ==
    /\ Merged
    /\ \E f, g \in OptionFields :
           /\ self.engraving_defaults.opt[f] # None
           /\ defaults.engraving_defaults.opt[f] # None
           /\ self.engraving_defaults.opt[f] # defaults.engraving_defaults.opt[f]
           /\ self.engraving_defaults.opt[g] = None
           /\ defaults.engraving_defaults.opt[g] # None
           /\ merged[1].engraving_defaults.opt[g] = defaults.engraving_defaults.opt[g]

C4_MergedKeysAreUnion ==
    Merged =>
        \A map \in GlyphMaps :
            /\ DOMAIN merged[1][map] = DOMAIN self[map] \cup DOMAIN defaults[map]
            /\ \A order \in KeyOrders(merged[1][map]) :
                   Range(unknown_glyphs(order)) =
                       UnknownNamesIn(self[map]) \cup UnknownNamesIn(defaults[map])

\* A merge of two maps that hold different unknown keys.
C4_Witness ==
    /\ Merged
    /\ \E map \in GlyphMaps :
           /\ UnknownNamesIn(self[map]) # {}
           /\ UnknownNamesIn(defaults[map]) # {}
           /\ UnknownNamesIn(self[map]) # UnknownNamesIn(defaults[map])
           /\ Cardinality(UnknownNamesIn(merged[1][map])) = 2

----------------------------------------------------------------------------
(* Properties of GlyphData<T> (of SpecGlyphData).                           *)

\* C5: try_get gives Some of the value stored under the key Glyph(g) when the
\* map has that key and None when it has not, whatever the other keys are.
C5_TryGetTotal ==
    gd_ret.op = "try_get" =>
        LET g == gd_ret.glyph[1]
        IN  /\ g \in DOMAIN glyph_data => gd_ret.out = Some(glyph_data[g])
            /\ g \notin DOMAIN glyph_data => gd_ret.out = None
            /\ gd_ret.out = None \/ \E v \in Values : gd_ret.out = Some(v)

\* try_get of a glyph the map holds only under the Unknown key of the same
\* name, beside an entry for another glyph.
C5_Witness ==
    /\ gd_ret.op = "try_get"
    /\ gd_ret.out = None
    /\ Unknown(gd_ret.glyph[1].name) \in DOMAIN glyph_data
    /\ \E g \in Glyphs : g \in DOMAIN glyph_data

RECURSIVE Ascending(_)
Ascending(names) ==
    \/ Len(names) < 2
    \/ StrLess(names[1], names[2]) /\ Ascending(Tail(names))

ExactlyTheUnknownKeys(names, data) ==
    /\ Range(names) = UnknownNamesIn(data)
    /\ Len(names) = Cardinality(UnknownNamesIn(data))

\* C7 as stated: unknown_glyphs yields exactly the names of the Unknown keys,
\* each once, in sorted order.
C7_Original ==
    gd_ret.op = "unknown_glyphs" =>
        /\ ExactlyTheUnknownKeys(gd_ret.out, glyph_data)
        /\ Ascending(gd_ret.out)

\* C7, amended: unknown_glyphs yields exactly the names of the Unknown keys of
\* the map, each once (nothing for a map of known keys only); their order is
\* the order of the HashMap's keys.
C7_UnknownGlyphsExact ==
    gd_ret.op = "unknown_glyphs" =>
        /\ ExactlyTheUnknownKeys(gd_ret.out, glyph_data)
        /\ UnknownNamesIn(glyph_data) = {} => gd_ret.out = <<>>

\* unknown_glyphs of a map with a known key and two unknown keys, yielded in
\* descending order.
C7_Witness ==
    /\ gd_ret.op = "unknown_glyphs"
    /\ \E g \in Glyphs : g \in DOMAIN glyph_data
    /\ Len(gd_ret.out) = 2
    /\ StrLess(gd_ret.out[2], gd_ret.out[1])

----------------------------------------------------------------------------
(* Properties of Metadata::from_reader (of Spec).                           *)

SectionOf(map) ==
    CASE map = "advance_widths" -> "glyphAdvanceWidths"
      [] map = "anchors" -> "glyphsWithAnchors"
      [] map = "bounding_boxes" -> "glyphBBoxes"

MemberNames(members) == {members[i][1] : i \in DOMAIN members}

\* The value the last member of that name carries.
LastValueOf(members, name) ==
    LET last == CHOOSE i \in DOMAIN members :
                    /\ members[i][1] = name
                    /\ \A j \in DOMAIN members : members[j][1] = name => j <= i
    IN  members[last][2].v

\* Nothing but its glyph names could make the decode of this document fail.
SoundButForNames(d) ==
    /\ d.well_formed
    /\ FontNameIntact(d)
    /\ EngravingDefaults_deserialize(d.engravingDefaults).ok
    /\ \A section \in GlyphSections :
           \A i \in DOMAIN MembersOf(d[section]) :
               MembersOf(d[section])[i][2].shape = "valid"

\* C8: a key of a glyph map decodes to the Glyph branch exactly when its name
\* is a registry name, and otherwise is kept with its value under Unknown of
\* that very name; no Unknown key carries a registry name; and a name that is
\* not registered never makes the decode fail.
C8_KeysResolveOrAreKept ==
    /\ metadata # None =>
           \A map \in GlyphMaps :
               LET members == MembersOf(doc[SectionOf(map)])
                   data == metadata[1][map]
               IN  /\ \A name \in MemberNames(members) :
                           /\ name \in RegistryNames =>
                                  /\ Glyph(name) \in DOMAIN data
                                  /\ Unknown(name) \notin DOMAIN data
                                  /\ data[Glyph(name)] = LastValueOf(members, name)
                           /\ name \notin RegistryNames =>
                                  /\ Unknown(name) \in DOMAIN data
                                  /\ Glyph(name) \notin DOMAIN data
                                  /\ data[Unknown(name)] = LastValueOf(members, name)
                   /\ \A k \in DOMAIN data :
                           /\ k.name \in MemberNames(members)
                           /\ k.tag = "Unknown" => k.name \notin RegistryNames
    /\ (pc # "input" /\ SoundButForNames(doc)) => metadata # None

\* A decoded document with a registered and an unregistered name in one map.
C8_Witness ==
    /\ metadata # None
    /\ \E map \in GlyphMaps :
           /\ \E k \in DOMAIN metadata[1][map] : k.tag = "Glyph"
           /\ \E k \in DOMAIN metadata[1][map] : k.tag = "Unknown"

\* The unknown names of the three maps of the decoded Metadata.
AllUnknownNames ==
    UnknownNamesIn(metadata[1].advance_widths)
    \cup UnknownNamesIn(metadata[1].anchors)
    \cup UnknownNamesIn(metadata[1].bounding_boxes)

Warnings == SelectSeq(log, LAMBDA e : e.level = "WARN")
Debugs == SelectSeq(log, LAMBDA e : e.level = "DEBUG")

Logged == pc \in {"logged", "returned"} /\ metadata # None

\* One registered and one unregistered key in glyphBBoxes, and nothing else.
OneKnownOneUnknownBox(d, name) ==
    /\ d.glyphAdvanceWidths = None /\ d.glyphsWithAnchors = None
    /\ Len(MembersOf(d.glyphBBoxes)) = 2
    /\ \E known \in RegistryNames : MemberNames(MembersOf(d.glyphBBoxes)) = {known, name}
    /\ name \notin RegistryNames

\* C9: the batch from_reader reports holds exactly the unknown names of the
\* advance-width, anchor and bounding-box maps, each once, ascending; a
\* document with one registered and one unregistered key in glyphBBoxes gives
\* the batch of that one key.
C9_BatchIsSortedUnion ==
    /\ (Logged /\ AllUnknownNames # {}) => Len(Warnings) = 1
    /\ \A i \in DOMAIN Warnings :
           LET batch == Warnings[i].unknowns[1]
           IN  /\ Range(batch) = AllUnknownNames
               /\ Len(batch) = Cardinality(AllUnknownNames)
               /\ Ascending(batch)
    /\ \A name \in UnregisteredNames :
           (Logged /\ OneKnownOneUnknownBox(doc, name)) =>
               (Len(Warnings) = 1 /\ Warnings[1].unknowns = Some(<<name>>))

\* A batch of two names, one of them a key of two maps.
C9_Witness ==
    /\ Logged
    /\ Len(Warnings) = 1
    /\ Len(Warnings[1].unknowns[1]) = 2
    /\ \E name \in UnregisteredNames :
           /\ name \in UnknownNamesIn(metadata[1].advance_widths)
           /\ name \in UnknownNamesIn(metadata[1].bounding_boxes)

Returned_ok == pc = "returned" /\ result # None /\ result[1].ok
Returned_err == pc = "returned" /\ result # None /\ ~result[1].ok

\* What from_reader does about the warning, whatever else it logs.
WarningOncePerDecode ==
    /\ Len(Warnings) <= 1
    /\ (Returned_ok /\ AllUnknownNames # {}) => Len(Warnings) = 1
    /\ Len(Warnings) = 1 => Logged
    /\ (metadata # None /\ AllUnknownNames = {}) => Len(Warnings) = 0
    /\ Returned_err => (Len(Warnings) = 0 /\ Len(Debugs) = 0)

\* C10 as stated: the unknown-glyph record is emitted once per successful
\* decode with unknown names, after the decode; when there are no unknown names
\* log_unknowns emits no record at all; nor when the decode fails.
C10_Original ==
    /\ WarningOncePerDecode
    /\ (metadata # None /\ AllUnknownNames = {}) => Len(Debugs) = 0

\* C10, amended: the WARN record is emitted once per successful decode with
\* unknown names, after the decode, and never when the decode fails; when
\* there are no unknown names no WARN record is emitted, but log_unknowns
\* emits one DEBUG record ("No unknowns glyphs found") in its place.
C10_WarnOnceDebugWhenEmpty ==
    /\ WarningOncePerDecode
    /\ (Logged /\ AllUnknownNames = {}) =>
           log = <<Event("DEBUG", "No unknowns glyphs found", None)>>
    /\ Len(Warnings) + Len(Debugs) <= 1

\* from_reader has returned a Metadata with unknown names, after one warning.
C10_Witness ==
    /\ Returned_ok
    /\ AllUnknownNames # {}
    /\ Len(Warnings) = 1
    /\ Len(log) = 1


\* A member of engravingDefaults that its decoding rejects: a value of the
\* wrong type for a field, or a field given a second time.
EngravingMemberRejected(members, i) ==
    LET key == members[i][1]
        json == members[i][2]
    IN  /\ key \in JsonKeys \cup {"textFontFamily"}
        /\ \/ json.shape = "mistyped"
           \/ key = "textFontFamily" /\ json.shape # "valid"
           \/ \E j \in 1..(i - 1) : members[j][1] = key

\* The document is no JSON, lacks fontName or gives it the wrong type, or
\* holds a member whose value has the wrong type.
Damaged(d) ==
    \/ ~d.well_formed
    \/ d.fontName = None
    \/ d.fontName # None /\ d.fontName[1].shape # "valid"
    \/ \E section \in GlyphSections :
           \E i \in DOMAIN MembersOf(d[section]) :
               MembersOf(d[section])[i][2].shape # "valid"
    \/ \E i \in DOMAIN MembersOf(d.engravingDefaults) :
           EngravingMemberRejected(MembersOf(d.engravingDefaults), i)

\* C11: from_reader returns a complete Metadata or an error, never both: a
\* damaged document gives the error alone and no Metadata, any other document
\* gives a Metadata, in which every part the document leaves out is that
\* part's Default.
C11_MetadataOrError ==
    /\ pc = "returned" =>
           /\ result # None
           /\ Returned_err <=> Damaged(doc)
           /\ Returned_err => (result[1].value = None /\ metadata = None)
           /\ Returned_ok => (result[1].value = metadata /\ metadata # None)
    /\ Returned_ok =>
           LET m == result[1].value[1]
           IN  /\ m.font_name = doc.fontName[1].v
               /\ doc.engravingDefaults = None =>
                      m.engraving_defaults = EngravingDefaults_default
               /\ \A map \in GlyphMaps :
                      doc[SectionOf(map)] = None => m[map] = GlyphData_default

\* from_reader has returned the Metadata of a document that has advance widths
\* and neither engraving defaults nor bounding boxes.
C11_Witness ==
    /\ Returned_ok
    /\ doc.glyphAdvanceWidths # None
    /\ doc.engravingDefaults = None
    /\ doc.glyphBBoxes = None
    /\ result[1].value[1].bounding_boxes = GlyphData_default


----------------------------------------------------------------------------
(* Properties of smufl-gen (of SpecGenerator and SpecVariantName).          *)

Printed == gpc = "printed" /\ stdout # None

\* The identifiers of the variants of the printed enumeration, in order.
VariantsOf(code) == [i \in 1..Len(code.glyph_enum) |-> code.glyph_enum[i].variant]

\* C12: the variant identifiers generate emits for a registry are pairwise
\* distinct: one variant for each entry of the registry, none shared by two
\* entries.
C12_VariantsPairwiseUnique ==
    Printed =>
        LET variants == VariantsOf(stdout[1])
        IN  /\ Len(variants) = Cardinality(DOMAIN registry)
            /\ \A i, j \in 1..Len(variants) :
                   variants[i] = variants[j] => i = j

\* c begins "Th" or "Nd" at position i of s.
OrdinalAt(s, i) ==
    /\ i + 1 <= Len(s)
    /\ \/ s[i] = 84 /\ s[i + 1] = 104
       \/ s[i] = 78 /\ s[i + 1] = 100

\* C13: at every place of the Pascal-case form where digits are followed by Th
\* or Nd, the corrected form has the same digits followed by th or nd; at each
\* such place of the name, not at the first alone.
C13_EveryOrdinalLowered ==
    vn_out # None =>
        /\ Len(vn_fixed) = Len(vn_pascal)
        /\ \A i \in 2..Len(vn_pascal) :
               (is_ascii_digit(vn_pascal[i - 1]) /\ OrdinalAt(vn_pascal, i)) =>
                   /\ vn_fixed[i - 1] = vn_pascal[i - 1]
                   /\ vn_fixed[i] = vn_pascal[i] + 32
                   /\ vn_fixed[i + 1] = vn_pascal[i + 1]

\* C14: the identifier is the corrected form with one underscore before it
\* when that form begins with a character that is no letter, and the corrected
\* form itself otherwise; an identifier that is not empty begins with a letter
\* or the underscore.
C14_UnderscoreIffNotAlphabetic ==
    vn_out # None =>
        LET identifier == vn_out[1]
        IN  /\ \/ /\ vn_fixed # <<>>
                  /\ ~is_alphabetic(vn_fixed[1])
                  /\ identifier = <<95>> \o vn_fixed
               \/ /\ vn_fixed = <<>> \/ is_alphabetic(vn_fixed[1])
                  /\ identifier = vn_fixed
            /\ identifier # <<>> =>
                   is_alphabetic(identifier[1]) \/ identifier[1] = 95

\* variant_name has turned "4stringTabClef" into "_4StringTabClef".
C14_Witness ==
    /\ vn_name = FourStringTabClef_name
    /\ vn_out = Some(<<95, 52, 83, 116, 114, 105, 110, 103, 84, 97, 98, 67, 108, 101, 102>>)
    /\ vn_fixed = <<52, 83, 116, 114, 105, 110, 103, 84, 97, 98, 67, 108, 101, 102>>

\* The identifiers of a sequence of variants or arms ascend.
AscendingVariants(items) ==
    \A i \in 1..(Len(items) - 1) : StrLessEq(items[i].variant, items[i + 1].variant)

\* C15: whatever the order the registry map is iterated in, generate emits the
\* same sequence of entries, and the enumeration and both functions list them
\* by ascending identifier.
C15_OrderIndependent ==
    Printed =>
        /\ \A order \in KeyOrders(main_glyphs[1]) :
               generate(main_glyphs[1], order) = stdout[1]
        /\ AscendingVariants(stdout[1].glyph_enum)
        /\ AscendingVariants(stdout[1].codepoint_fn)
        /\ AscendingVariants(stdout[1].alternate_codepoint_fn)

\* A string that is "U+" followed by hexadecimal digits naming a Unicode
\* scalar value.
ScalarValueString(string) ==
    /\ Len(string) >= 3
    /\ string[1] = 85
    /\ string[2] = 43
    /\ \A i \in 3..Len(string) : to_digit(string[i]) # None
    /\ Len(trim_zeros(SubSeq(string, 3, Len(string)))) <= 6
    /\ LET value == hex_value(SubSeq(string, 3, Len(string)), 0)
       IN  value <= 1114111 /\ ~(value >= 55296 /\ value <= 57343)

RegistryWellFormed ==
    \A name \in DOMAIN registry :
        /\ ScalarValueString(registry[name].codepoint)
        /\ registry[name].alternateCodepoint # None =>
               ScalarValueString(registry[name].alternateCodepoint[1])

\* C16: a registry with a codepoint or alternateCodepoint that is not "U+" and
\* the hexadecimal digits of a Unicode scalar value makes generation fail, and
\* nothing is printed before every entry has been decoded.
C16_MalformedCodepointFails ==
    /\ gpc \in {"decoded", "printed"} => RegistryWellFormed
    /\ gpc = "panicked" => ~RegistryWellFormed
    /\ stdout # None => gpc = "printed"
    /\ gpc = "panicked" => (stdout = None /\ main_glyphs = None)

\* C17: the two functions have one arm for each variant of the enumeration,
\* in the order of the variants and for no other identifier; the arm of
\* codepoint gives the entry's code point, the arm of alternate_codepoint
\* gives the entry's alternate code point when the registry has one for the
\* entry and None when it has not.
C17_ArmsMatchVariants ==
    Printed =>
        LET code == stdout[1]
            n == Len(code.glyph_enum)
        IN  /\ n = Cardinality(DOMAIN registry)
            /\ {code.glyph_enum[i].rename : i \in 1..n} = DOMAIN registry
            /\ Len(code.codepoint_fn) = n
            /\ Len(code.alternate_codepoint_fn) = n
            /\ \A i \in 1..n :
                   LET entry == code.glyph_enum[i].rename
                       arm == code.codepoint_fn[i]
                       alternate == code.alternate_codepoint_fn[i]
                   IN  /\ arm.variant = code.glyph_enum[i].variant
                       /\ alternate.variant = code.glyph_enum[i].variant
                       /\ arm.value = Codepoint_fmt(main_glyphs[1][entry].codepoint)
                       /\ alternate.value # None <=>
                              registry[entry].alternateCodepoint # None
                       /\ alternate.value # None =>
                              alternate.value[1] =
                                  Codepoint_fmt(main_glyphs[1][entry].alternate_codepoint[1])

\* The code printed for a registry of two entries, one with an alternate code
\* point and one without.
C17_Witness ==
    /\ Printed
    /\ Len(stdout[1].alternate_codepoint_fn) = 2
    /\ stdout[1].alternate_codepoint_fn[1].value = None
    /\ stdout[1].alternate_codepoint_fn[2].value # None
    /\ stdout[1].codepoint_fn[1].variant # stdout[1].codepoint_fn[2].variant

\* C18: the correction changes the first letter of a Th or Nd that follows
\* digits, to lower case, and nothing else: any other character of the
\* Pascal-case form, a T or N that begins another word after digits included,
\* is in the corrected form as it was.
C18_OnlyOrdinalsChanged ==
    vn_out # None =>
        /\ Len(vn_fixed) = Len(vn_pascal)
        /\ \A i \in 1..Len(vn_pascal) :
               vn_fixed[i] # vn_pascal[i] =>
                   /\ i > 1
                   /\ is_ascii_digit(vn_pascal[i - 1])
                   /\ OrdinalAt(vn_pascal, i)
                   /\ vn_fixed[i] = vn_pascal[i] + 32

====
